---- MODULE Spec2Model ----
(***************************************************************************)
(* X-Scheduler (src/x-scheduler/scripts/scheduler.py): the scheduled-post  *)
(* store (add / list / cancel / history / setup) and the due-post          *)
(* processor, in its two implementations: cmd_post_due and the main() of   *)
(* the generated scheduled-posts/post_due.py (POST_DUE_SCRIPT).            *)
(*                                                                         *)
(* Time is counted in whole units (hours).  An aware datetime is a record  *)
(* [local, aware, off]: the wall-clock reading, whether it carries a zone, *)
(* and the UTC offset; the instant an aware one denotes is local - off.    *)
(* An ISO-8601 string is the tuple <<local, sign, hh>> of its fixed-width  *)
(* fields (<<local>> when the string carries no offset), compared field by *)
(* field as Python compares the strings character by character.            *)
(***************************************************************************)
EXTENDS Integers, Sequences, FiniteSets, TLC

(* ---------------- bounds of the model ---------------- *)
\* number of add commands that write a file
MaxAdds == 2
\* the clock runs from StartClock to StartClock + MaxTicks
MaxTicks == 1
\* size of the range of the 6-hex-digit md5 prefix (16^6 in the code)
HashSpace == 2
\* number of add commands that write a file when the options of add are drawn
\* from their full sets (SpecInputs)
MaxInputAdds == 1
\* number of add commands that write a file when passes may overlap
\* (SpecOverlap)
MaxOverlapAdds == 1
\* the adds accepted when the directories hold files that are not post records
MaxArtifactAdds == 1

(* ---------------- inputs ---------------- *)
None == "None"
Zones == {"UTC", "Asia/Tokyo"}
\* wall-clock readings the user passes to --datetime
DateTimes == {7, 16}
\* the clock starts one unit before the earliest of these readings
StartClock == (CHOOSE d \in DateTimes : \A e \in DateTimes : d <= e) - 1
\* the --datetime arguments: a reading in one of the two accepted formats, or
\* a string strptime rejects
DateTimeArgs == [valid : {TRUE}, value : DateTimes] \cup {[valid |-> FALSE, value |-> 0]}
Texts == {"Hello"}
Labels == {None}
ReplyTos == {None}
Quotes == {None}
\* the full sets of the options of add: argparse takes an empty string for any
\* of them, and --label, --reply-to and --quote may be left out
AnyTexts == {"Hello", ""}
AnyLabels == {None, "promo"}
AnyReplyTos == {None, "", "1001"}
AnyQuotes == {None, "", "2002"}
\* messages of the errors the Publisher raises (RuntimeError: no tweepy,
\* ValueError: no credentials); post_due.py words the second one differently
ErrTweepy == "tweepy not installed"
ErrCreds == "credentials not set"
ErrCredsScript == "X API credentials not set in environment/secrets."
Runners == {1, 2}
Impls == {"cmd", "script"}

VARIABLES
    dirs,       \* which of the store's paths exist
    scheduled,  \* scheduled-posts/*.json : file name (the id) -> record
    done,       \* scheduled-posts/done/*.json : file name -> record
    clock,      \* the current instant (UTC)
    pc,         \* per runner: position in the processor's pass
    run,        \* per runner: the locals of the pass
    result,     \* what the last command reported when it finished
    published,  \* the calls made to the Publisher, in order (with, as history,
                \* the add that created the post and whether the calling pass
                \* had overlapped another)
    ghost,      \* history: the number of adds; whether a pass has ended with no
                \* add since, and the now of that pass; the adds that gave the
                \* past-date warning, were not cancelled, and no pass has ended since;
                \* the adds whose pending record a cancel removed, each with
                \* whether it was due then
    junk        \* the files of the two directories that are not post records:
                \* directory, and the name as prefix, stem and extension

vars == <<dirs, scheduled, done, clock, pc, run, result, published, ghost, junk>>

(* ---------------- time and strings ---------------- *)
\* zoneinfo: the UTC offset of a named zone
UtcOffset(tz) == IF tz = "Asia/Tokyo" THEN 9 ELSE 0

\* the zone of the machine's local time (datetime.now() without a zone)
SystemZone == "Asia/Tokyo"

\* datetime.now(tz)
NowIn(t, off) == [local |-> t + off, aware |-> TRUE, off |-> off]

\* datetime.isoformat()
IsoFormat(dt) ==
    IF ~dt.aware THEN <<dt.local>>
    ELSE <<dt.local, IF dt.off < 0 THEN "-" ELSE "+", IF dt.off < 0 THEN 0 - dt.off ELSE dt.off>>

\* datetime.fromisoformat()
FromIsoFormat(s) ==
    IF Len(s) = 1 THEN [local |-> s[1], aware |-> FALSE, off |-> 0]
    ELSE [local |-> s[1], aware |-> TRUE, off |-> IF s[2] = "-" THEN 0 - s[3] ELSE s[3]]

\* the instant an aware datetime denotes
Instant(dt) == dt.local - dt.off

\* str < str on two ISO strings: '+' (0x2B) sorts before '-' (0x2D)
StrLess(a, b) ==
    \/ a[1] < b[1]
    \/ /\ a[1] = b[1]
       /\ \/ Len(a) < Len(b)
          \/ /\ Len(a) = 3 /\ Len(b) = 3
             /\ \/ a[2] = "+" /\ b[2] = "-"
                \/ a[2] = b[2] /\ a[3] < b[3]

\* strptime with the bug of reading a date out of any string
strptime_Lenient(dtstr) == [ok |-> TRUE, value |-> dtstr.value]

\* lines 64-74: datetime.strptime with '%Y-%m-%d %H:%M', then with
\* '%Y-%m-%d %H:%M:%S'; ValueError from both is the error exit
strptime(dtstr) ==
    IF dtstr.valid THEN [ok |-> TRUE, value |-> dtstr.value] ELSE [ok |-> FALSE, value |-> 0]

(* ---------------- files ---------------- *)
\* hashlib.md5(f"{ts}{now}").hexdigest()[:6]: a fixed function of its input
\* with a range of HashSpace values.  now is the reading of datetime.now(): the
\* hour and, below the hour, a part that grows from one add to the next (no
\* two adds read the same microsecond)
Md5Hex6(ts, now) == (ts * 3 + now.hour + now.sub) % HashSpace

\* every file name generate_post_id can produce
Ids == {<<ts, h>> : ts \in DateTimes, h \in 0..(HashSpace - 1)}

generate_post_id(scheduled_at, t, sub) ==
    LET ts == scheduled_at.local
    IN  <<ts, Md5Hex6(ts, [hour |-> NowIn(t, UtcOffset(SystemZone)).local, sub |-> sub])>>

\* order of the file names "<ts>_<hash>.json" as strings
NameLess(a, b) == a[1] < b[1] \/ (a[1] = b[1] /\ a[2] < b[2])

\* order of the names of a directory as strings: "." sorts before the digits,
\* and ".json" before ".json.bak"
EntryLess(a, b) ==
    \/ a.prefix = "._" /\ b.prefix = ""
    \/ a.prefix = b.prefix /\ NameLess(a.stem, b.stem)
    \/ a.prefix = b.prefix /\ a.stem = b.stem /\ a.ext = ".json" /\ b.ext # ".json"

RECURSIVE SortedNames(_)
SortedNames(S) ==
    IF S = {} THEN <<>>
    ELSE LET m == CHOOSE x \in S : \A y \in S : ~EntryLess(y, x)
         IN  <<m>> \o SortedNames(S \ {m})

\* the keys whose value may be None (the options left out on the command line)
NullableKeys == {"reply_to", "quote_tweet_id"}

\* JsonValue with the bug of writing an empty string as null
JsonValue_EmptyIsNull(k, v) ==
    IF k \in NullableKeys \cup {"label"} /\ v \in {None, ""} THEN <<"null">> ELSE <<"value", v>>

\* json.dump of one value: None becomes null, anything else its JSON literal
JsonValue(k, v) == IF k \in NullableKeys /\ v = None THEN <<"null">> ELSE <<"value", v>>

\* json.dump(data, f, ensure_ascii=False, indent=2): the text of the file
json_dump(data) == [k \in DOMAIN data |-> JsonValue(k, data[k])]

\* json.load(fh): null becomes None
json_load(text) == [k \in DOMAIN text |-> IF text[k][1] = "null" THEN None ELSE text[k][2]]

\* open(path, 'w') + json.dump; a directory is kept as what json.load returns
\* from each of its files
WriteFile(directory, name, data) ==
    [n \in DOMAIN directory \cup {name} |->
        IF n = name THEN json_load(json_dump(data)) ELSE directory[n]]

\* Unlink with the bug of leaving the file in place
Unlink_Noop(directory, name) == directory

\* Path.unlink()
Unlink(directory, name) == [n \in DOMAIN directory \ {name} |-> directory[n]]

get_scheduled_dir == "scheduled-posts"
get_done_dir == "scheduled-posts/done"
PostDuePy == "scheduled-posts/post_due.py"

\* the post files of a directory of the store
PostFiles(dirname) == IF dirname = get_done_dir THEN done ELSE scheduled

\* the names in a directory: the post files "<id>.json" and the other files
Listing(dirname) ==
    {[prefix |-> "", stem |-> n, ext |-> ".json"] : n \in DOMAIN PostFiles(dirname)}
    \cup {[prefix |-> e.prefix, stem |-> e.stem, ext |-> e.ext] :
             e \in {j \in junk : j.dir = dirname}}

\* the listing with no test of the names
glob_json_NoFilter(dirname) == SortedNames(Listing(dirname))

\* sorted(f for f in directory.glob('*.json') if not f.name.startswith('._'));
\* post_due.py makes the same choice with glob('*.json') and the test of the
\* name at the top of its loop
glob_json(dirname) ==
    SortedNames({e \in Listing(dirname) : e.ext = ".json" /\ e.prefix # "._"})

\* open and json.load of a file that holds no JSON text (an AppleDouble
\* companion "._<name>", a backup copy) raises
Undecodable(e) == e.prefix = "._" \/ e.ext # ".json"

\* pathlib: scheduled_dir / f"{post_id}.json", for a post_id typed by the user,
\* which is a file name or a file name under a directory prefix
JoinPath(post_id) ==
    IF post_id.prefix = "done/" THEN [dir |-> get_done_dir, name |-> post_id.name]
    ELSE [dir |-> get_scheduled_dir, name |-> post_id.name]

PathExists(path) ==
    IF path.dir = get_done_dir THEN path.name \in DOMAIN done
    ELSE path.name \in DOMAIN scheduled

\* an id that generate_post_id never returns
NoSuchId == <<0, 0>>

\* the ids a user can type on the command line of cancel: those of the files
\* there are and one that no file has (every name without a file is refused
\* alike), plain or under the directory prefix done/
CancelArgs == [prefix : {"", "done/"}, name : DOMAIN scheduled \cup DOMAIN done \cup {NoSuchId}]

(* ---------------- the records ---------------- *)
\* post_data of cmd_add; uid is history only: the number of the add command
\* that created the record (the program does not store it)
PostData(post_id, text, scheduled_at, now, label, reply_to, quote, uid) ==
    [id |-> post_id,
     text |-> text,
     scheduled_at |-> IsoFormat(scheduled_at),
     created_at |-> IsoFormat(now),
     status |-> "pending",
     label |-> IF label = None THEN "" ELSE label,
     reply_to |-> reply_to,
     quote_tweet_id |-> quote,
     uid |-> uid]

\* posts.sort(key=lambda x: x['scheduled_at']): stable, ascending by the string
RECURSIVE InsertAsc(_, _)
InsertAsc(seq, x) ==
    IF seq = <<>> THEN <<x>>
    ELSE IF StrLess(x.scheduled_at, Head(seq).scheduled_at) THEN <<x>> \o seq
    ELSE <<Head(seq)>> \o InsertAsc(Tail(seq), x)

RECURSIVE SortByScheduledAt(_)
SortByScheduledAt(posts) ==
    IF posts = <<>> THEN <<>>
    ELSE InsertAsc(SortByScheduledAt(SubSeq(posts, 1, Len(posts) - 1)), posts[Len(posts)])

\* x.get('posted_at', x['scheduled_at'])
HistoryKey(x) == IF "posted_at" \in DOMAIN x THEN x.posted_at ELSE x.scheduled_at

\* SortByPostedAtDesc with the bug of leaving the records in glob order
SortByPostedAtDesc_Unsorted(posts) == posts

\* posts.sort(key=..., reverse=True): stable, descending by the string
RECURSIVE InsertDesc(_, _)
InsertDesc(seq, x) ==
    IF seq = <<>> THEN <<x>>
    ELSE IF StrLess(HistoryKey(Head(seq)), HistoryKey(x)) THEN <<x>> \o seq
    ELSE <<Head(seq)>> \o InsertDesc(Tail(seq), x)

RECURSIVE SortByPostedAtDesc(_)
SortByPostedAtDesc(posts) ==
    IF posts = <<>> THEN <<>>
    ELSE InsertDesc(SortByPostedAtDesc(SubSeq(posts, 1, Len(posts) - 1)), posts[Len(posts)])

\* the records of the files of a directory, in glob order
ReadAll(dirname) ==
    [i \in 1..Len(glob_json(dirname)) |-> PostFiles(dirname)[glob_json(dirname)[i].stem]]

\* whether the loop over glob_json meets a file it cannot read
ReadFails(dirname) ==
    dirname \in dirs /\ \E i \in DOMAIN glob_json(dirname) : Undecodable(glob_json(dirname)[i])

\* the loop of cmd_list: keep the pending records
ListFilter(data) == data.status = "pending"

ListPosts ==
    IF get_scheduled_dir \notin dirs THEN <<>>
    ELSE SortByScheduledAt(SelectSeq(ReadAll(get_scheduled_dir), ListFilter))

HistoryPosts ==
    IF get_done_dir \notin dirs THEN <<>>
    ELSE SortByPostedAtDesc(ReadAll(get_done_dir))

(* ---------------- the processor's helpers ---------------- *)
\* IsDue with the bug of comparing the wall-clock reading and dropping the offset
IsDue_WallClock(data, now) == ~(FromIsoFormat(data.scheduled_at).local > now)

\* IsDue with the bug of taking every pending post for due
IsDue_Always(data, now) == TRUE

\* lines 216-221 / 423-431: the due test against the pass's now
IsDue(data, now) ==
    LET parsed == FromIsoFormat(data.scheduled_at)
        scheduled_at == IF ~parsed.aware THEN [parsed EXCEPT !.aware = TRUE, !.off = 0]
                        ELSE parsed
    IN  ~(Instant(scheduled_at) > now)

\* the world a call of post_to_x finds: all well, the tweepy package missing,
\* or the credentials missing from the environment
Envs == {"ok", "no-tweepy", "no-creds"}

\* post_to_x: what the call returns or raises (post_due.py imports tweepy when
\* it starts, not in post_to_x)
post_to_x(data, impl, env, tweet_no) ==
    IF impl = "cmd" /\ env = "no-tweepy" THEN [ok |-> FALSE, error |-> ErrTweepy]
    ELSE IF env = "no-creds"
    THEN [ok |-> FALSE, error |-> IF impl = "cmd" THEN ErrCreds ELSE ErrCredsScript]
    ELSE [ok |-> TRUE, tweet_id |-> tweet_no, url |-> <<"https://x.com/i/status/", tweet_no>>]

\* the truth value Python gives an option: None and the empty string are false
Truthy(v) == v # None /\ v # ""

\* TweetKwargs with the bug of never passing the reply target
TweetKwargs_NoReply(data) ==
    IF Truthy(data.quote_tweet_id)
    THEN [text |-> data.text, quote_tweet_id |-> data.quote_tweet_id]
    ELSE [text |-> data.text]

\* the keyword arguments of client.create_tweet, lines 274-278 / 390-394
TweetKwargs(data) ==
    IF Truthy(data.reply_to) /\ Truthy(data.quote_tweet_id)
    THEN [text |-> data.text, in_reply_to_tweet_id |-> data.reply_to,
          quote_tweet_id |-> data.quote_tweet_id]
    ELSE IF Truthy(data.reply_to)
    THEN [text |-> data.text, in_reply_to_tweet_id |-> data.reply_to]
    ELSE IF Truthy(data.quote_tweet_id)
    THEN [text |-> data.text, quote_tweet_id |-> data.quote_tweet_id]
    ELSE [text |-> data.text]

\* the instant written to posted_at: cmd_post_due reads the clock again,
\* post_due.py reuses the pass's now
PostedAtInstant(impl, now, t) == IF impl = "cmd" THEN t ELSE now

\* OnSuccess with the bug of not setting the status
OnSuccess_NoStatus(data, res, t) ==
    [posted_at |-> IsoFormat(NowIn(t, 0)), tweet_id |-> res.tweet_id,
     tweet_url |-> res.url] @@ data

\* the try branch, lines 227-230 / 436-439
OnSuccess(data, res, t) ==
    [status |-> "posted", posted_at |-> IsoFormat(NowIn(t, 0)),
     tweet_id |-> res.tweet_id, tweet_url |-> res.url] @@ data

\* OnFailure with the bug of not recording the message
OnFailure_NoError(data, res, t) ==
    [status |-> "failed", posted_at |-> IsoFormat(NowIn(t, 0))] @@ data

\* the except branch, lines 233-235 / 442-444
OnFailure(data, res, t) ==
    [status |-> "failed", error |-> res.error, posted_at |-> IsoFormat(NowIn(t, 0))] @@ data

\* AfterTry with the bug of an except clause that misses the failure
AfterTry_Uncaught(res) == IF res.ok THEN "write" ELSE "raise"

\* where control goes after the try statement, lines 225-236 / 434-445: every
\* Exception is caught, so on to the move to done/ ("raise": the exception leaves
\* the loop)
AfterTry(res) == "write"

\* CountPost with the bug of counting the posts that were posted only
CountPost_SuccessOnly(count, data) == IF data.status = "posted" THEN count + 1 ELSE count

\* posted_count += 1, line 243 / 452
CountPost(count, data) == count + 1

(* ---------------- state ---------------- *)
\* the locals of a pass; due, inSuccession, becameDue, calls and overlapped are
\* history: what the pass found when it started, how often it called
\* post_to_x, and whether another pass has been under way at the same time
IdleRun == [impl |-> None, now |-> 0, files |-> <<>>, f |-> None, data |-> None,
            count |-> 0, due |-> {}, inSuccession |-> FALSE, becameDue |-> FALSE,
            calls |-> 0, overlapped |-> FALSE]

\* nothing reported: no command has run yet, or a pass is under way
NoResult == [op |-> None, exit |-> 0]

AllIdle == \A r \in Runners : pc[r] = "idle"

Init ==
    /\ dirs = {}
    /\ scheduled = <<>>
    /\ done = <<>>
    /\ clock = StartClock
    /\ pc = [r \in Runners |-> "idle"]
    /\ run = [r \in Runners |-> IdleRun]
    /\ result = NoResult
    /\ published = <<>>
    /\ ghost = [adds |-> 0, inSuccession |-> FALSE, prevNow |-> 0, owed |-> {},
                cancelled |-> {}]
    /\ junk = {}

\* time passes between commands and while a pass waits for the Publisher: a
\* pass reads the clock when it starts and, in cmd_post_due, when post_to_x is
\* over (line 228), and nowhere else
Tick ==
    /\ clock < StartClock + MaxTicks
    /\ \A r \in Runners : pc[r] = "idle" \/ (pc[r] = "publish" /\ run[r].impl = "cmd")
    /\ clock' = clock + 1
    /\ UNCHANGED <<dirs, scheduled, done, pc, run, result, published, ghost, junk>>

\* time passes until the scheduled instant of a pending post
Later ==
    /\ \A r \in Runners : pc[r] = "idle" \/ (pc[r] = "publish" /\ run[r].impl = "cmd")
    /\ \E n \in DOMAIN scheduled :
          /\ Instant(FromIsoFormat(scheduled[n].scheduled_at)) > clock
          /\ clock' = Instant(FromIsoFormat(scheduled[n].scheduled_at))
    /\ UNCHANGED <<dirs, scheduled, done, pc, run, result, published, ghost, junk>>

(* ---------------- the store's commands ---------------- *)
\* add --text --datetime --timezone [--label] [--reply-to] [--quote]; the
\* result keeps, as history, whether --datetime was in an accepted format and
\* whether a file had the new id before
cmd_add(text, dtstr, tzname, label, reply_to, quote) ==
    /\ AllIdle
    /\ dirs' = dirs \cup {get_scheduled_dir}
    /\ IF ~strptime(dtstr).ok
       THEN /\ result' = [op |-> "add", exit |-> 1, valid |-> dtstr.valid]
            /\ UNCHANGED <<scheduled, ghost>>
       ELSE /\ ghost.adds < MaxAdds
            /\ LET scheduled_at == [local |-> strptime(dtstr).value, aware |-> TRUE,
                                    off |-> UtcOffset(tzname)]
                   now == NowIn(clock, UtcOffset(tzname))
                   post_id == generate_post_id(scheduled_at, clock, ghost.adds)
                   post_data == PostData(post_id, text, scheduled_at, now, label,
                                         reply_to, quote, ghost.adds + 1)
               IN  /\ scheduled' = WriteFile(scheduled, post_id, post_data)
                   /\ result' = [op |-> "add", exit |-> 0, out |-> post_data,
                                 valid |-> dtstr.valid,
                                 warning |-> ~(Instant(scheduled_at) > Instant(now)),
                                 existed |-> post_id \in DOMAIN scheduled \cup DOMAIN done]
                   /\ ghost' = [adds |-> ghost.adds + 1, inSuccession |-> FALSE, prevNow |-> 0,
                                owed |-> IF Instant(scheduled_at) > Instant(now) THEN ghost.owed
                                         ELSE ghost.owed \cup {ghost.adds + 1},
                                cancelled |-> ghost.cancelled]
    /\ UNCHANGED <<done, clock, pc, run, published, junk>>

\* list
cmd_list ==
    /\ AllIdle
    /\ result' = IF ReadFails(get_scheduled_dir)
                 THEN [op |-> "list", exit |-> 1, out |-> <<>>]
                 ELSE [op |-> "list", exit |-> 0, out |-> ListPosts]
    /\ UNCHANGED <<dirs, scheduled, done, clock, pc, run, published, ghost, junk>>

\* cancel <post_id>; the result keeps, as history, whether post_id named a
\* pending record, whether the command changed a directory, whether it changed
\* done/, and whether what it removed was the pending record post_id names and
\* nothing else
cmd_cancel(post_id) ==
    /\ AllIdle
    /\ LET filepath == JoinPath(post_id)
           wasPending == post_id.prefix = "" /\ post_id.name \in DOMAIN scheduled
       IN  IF ~PathExists(filepath)
           THEN /\ result' = [op |-> "cancel", exit |-> 1, wasPending |-> wasPending,
                              changed |-> FALSE, archiveChanged |-> FALSE,
                              removedNamed |-> FALSE]
                /\ UNCHANGED <<scheduled, done, ghost>>
           ELSE /\ scheduled' = IF filepath.dir = get_scheduled_dir
                                THEN Unlink(scheduled, filepath.name) ELSE scheduled
                /\ done' = IF filepath.dir = get_done_dir
                           THEN Unlink(done, filepath.name) ELSE done
                /\ result' = [op |-> "cancel", exit |-> 0, wasPending |-> wasPending,
                              changed |-> <<scheduled', done'>> # <<scheduled, done>>,
                              archiveChanged |-> done' # done,
                              removedNamed |-> /\ wasPending
                                               /\ scheduled' = Unlink(scheduled, post_id.name)]
                /\ ghost' = [ghost EXCEPT
                                !.owed = IF wasPending THEN @ \ {scheduled[post_id.name].uid}
                                         ELSE @,
                                !.cancelled =
                                    IF wasPending
                                    THEN @ \cup {[uid |-> scheduled[post_id.name].uid,
                                                  wasDue |-> IsDue(scheduled[post_id.name], clock)]}
                                    ELSE @]
    /\ UNCHANGED <<dirs, clock, pc, run, published, junk>>

\* history
cmd_history ==
    /\ AllIdle
    /\ result' = IF ReadFails(get_done_dir)
                 THEN [op |-> "history", exit |-> 1, out |-> <<>>]
                 ELSE [op |-> "history", exit |-> 0, out |-> HistoryPosts]
    /\ UNCHANGED <<dirs, scheduled, done, clock, pc, run, published, ghost, junk>>

\* setup: the directories and scheduled-posts/post_due.py
cmd_setup ==
    /\ AllIdle
    /\ dirs' = dirs \cup {get_scheduled_dir, get_done_dir, PostDuePy}
    /\ result' = [op |-> "setup", exit |-> 0]
    /\ UNCHANGED <<scheduled, done, clock, pc, run, published, ghost, junk>>

(* ---------------- the due-post processor ---------------- *)
\* the pending files that are due at now
DueFiles(now) ==
    {n \in DOMAIN scheduled : scheduled[n].status = "pending" /\ IsDue(scheduled[n], now)}

\* the start of cmd_post_due (lines 198-207) or of post_due.py (lines 369-373
\* and 406-411)
StartRun(r, impl, env) ==
    /\ pc[r] = "idle"
    /\ impl = "script" => PostDuePy \in dirs
    /\ IF \/ impl = "script" /\ env = "no-tweepy"
          \/ impl = "cmd" /\ get_scheduled_dir \notin dirs
       THEN /\ result' = [op |-> "post-due", exit |-> IF impl = "script" THEN 1 ELSE 0,
                          complete |-> FALSE, due |-> {}, raised |-> None]
            /\ UNCHANGED <<dirs, pc, run>>
       ELSE /\ dirs' = dirs \cup {get_scheduled_dir, get_done_dir}
            /\ run' = [q \in Runners |->
                          IF q = r
                          THEN [impl |-> impl, now |-> clock, files |-> glob_json(get_scheduled_dir),
                                f |-> None, data |-> None, count |-> 0,
                                due |-> DueFiles(clock),
                                inSuccession |-> ghost.inSuccession,
                                becameDue |-> \E n \in DueFiles(clock) :
                                                 /\ ghost.inSuccession
                                                 /\ ~IsDue(scheduled[n], ghost.prevNow),
                                calls |-> 0,
                                overlapped |-> \E o \in Runners : pc[o] # "idle"]
                          ELSE IF pc[q] # "idle" THEN [run[q] EXCEPT !.overlapped = TRUE]
                          ELSE run[q]]
            /\ pc' = [pc EXCEPT ![r] = "loop"]
            /\ result' = NoResult
    /\ UNCHANGED <<scheduled, done, clock, published, ghost, junk>>

\* the pass ends: the count is printed
EndPass(r) ==
    /\ pc[r] = "loop"
    /\ run[r].files = <<>>
    /\ result' = [op |-> "post-due", exit |-> 0, complete |-> TRUE, count |-> run[r].count,
                  now |-> run[r].now, due |-> run[r].due,
                  inSuccession |-> run[r].inSuccession, becameDue |-> run[r].becameDue,
                  calls |-> run[r].calls, owed |-> ghost.owed, raised |-> None]
    /\ pc' = [pc EXCEPT ![r] = "idle"]
    /\ run' = [run EXCEPT ![r] = IdleRun]
    /\ ghost' = [ghost EXCEPT !.inSuccession = TRUE, !.prevNow = run[r].now, !.owed = {}]
    /\ UNCHANGED <<dirs, scheduled, done, clock, published, junk>>

\* the pass dies on an exception nothing catches
Raise(r, exc) ==
    /\ result' = [op |-> "post-due", exit |-> 1, complete |-> FALSE, due |-> run[r].due,
                  raised |-> exc]
    /\ pc' = [pc EXCEPT ![r] = "idle"]
    /\ run' = [run EXCEPT ![r] = IdleRun]
    /\ UNCHANGED <<dirs, scheduled, done, clock, published, ghost, junk>>

\* the pass dies on an uncaught FileNotFoundError (open or unlink of a file
\* that is gone)
Crash(r) == Raise(r, "FileNotFoundError")

\* one turn of the for loop up to the try statement: open and read the file,
\* skip it unless it is pending and due
Scan(r) ==
    /\ pc[r] = "loop"
    /\ run[r].files # <<>>
    /\ LET f == Head(run[r].files)
       IN  IF Undecodable(f) THEN Raise(r, "ValueError")
           ELSE IF f.stem \notin DOMAIN scheduled THEN Crash(r)
           ELSE LET data == scheduled[f.stem]
                IN  /\ IF data.status # "pending" \/ ~IsDue(data, run[r].now)
                       THEN /\ run' = [run EXCEPT ![r].files = Tail(@)]
                            /\ UNCHANGED pc
                       ELSE /\ run' = [run EXCEPT ![r].f = f.stem, ![r].data = data]
                            /\ pc' = [pc EXCEPT ![r] = "publish"]
                    /\ UNCHANGED <<dirs, scheduled, done, clock, result, published, ghost, junk>>

\* the try statement: post_to_x and the outcome fields
Publish(r, env) ==
    /\ pc[r] = "publish"
    /\ run[r].impl = "script" => env # "no-tweepy"
    /\ LET data == run[r].data
           res == post_to_x(data, run[r].impl, env, Len(published) + 1)
           t == PostedAtInstant(run[r].impl, run[r].now, clock)
       IN  /\ published' = Append(published,
                              [uid |-> data.uid, kwargs |-> TweetKwargs(data), ok |-> res.ok,
                               overlapped |-> run[r].overlapped])
           /\ IF AfterTry(res) = "write"
              THEN /\ run' = [run EXCEPT ![r].data = IF res.ok THEN OnSuccess(data, res, t)
                                                     ELSE OnFailure(data, res, t),
                                         ![r].calls = @ + 1]
                   /\ pc' = [pc EXCEPT ![r] = "write"]
                   /\ UNCHANGED <<result, ghost>>
              ELSE /\ result' = [op |-> "post-due", exit |-> 1, complete |-> FALSE,
                                 due |-> run[r].due, raised |-> "Exception"]
                   /\ pc' = [pc EXCEPT ![r] = "idle"]
                   /\ run' = [run EXCEPT ![r] = IdleRun]
                   /\ UNCHANGED ghost
    /\ UNCHANGED <<dirs, scheduled, done, clock, junk>>

\* lines 239-241 / 448-450: write the record to done/
WriteDone(r) ==
    /\ pc[r] = "write"
    /\ done' = WriteFile(done, run[r].f, run[r].data)
    /\ pc' = [pc EXCEPT ![r] = "unlink"]
    /\ UNCHANGED <<dirs, scheduled, clock, run, result, published, ghost, junk>>

\* lines 242-243 / 451-452: remove the pending file and count the post
UnlinkPending(r) ==
    /\ pc[r] = "unlink"
    /\ IF run[r].f \notin DOMAIN scheduled THEN Crash(r)
       ELSE /\ scheduled' = Unlink(scheduled, run[r].f)
            /\ run' = [run EXCEPT ![r].files = Tail(@), ![r].f = None, ![r].data = None,
                                  ![r].count = CountPost(@, run[r].data)]
            /\ pc' = [pc EXCEPT ![r] = "loop"]
            /\ UNCHANGED <<dirs, done, clock, result, published, ghost, junk>>

\* one runner: no pass starts while another is under way
Next ==
    \/ Tick
    \/ \E text \in Texts, dtstr \in DateTimeArgs, tzname \in Zones,
          label \in Labels, reply_to \in ReplyTos, quote \in Quotes :
          cmd_add(text, dtstr, tzname, label, reply_to, quote)
    \/ cmd_list
    \/ \E post_id \in CancelArgs : cmd_cancel(post_id)
    \/ cmd_history
    \/ cmd_setup
    \/ \E impl \in Impls, env \in Envs : AllIdle /\ StartRun(1, impl, env)
    \/ EndPass(1)
    \/ Scan(1)
    \/ \E env \in Envs : Publish(1, env)
    \/ WriteDone(1)
    \/ UnlinkPending(1)

Spec == Init /\ [][Next]_vars

\* the same program with the options of add drawn from their full sets
NextInputs ==
    \/ Tick
    \/ \E text \in AnyTexts, dtstr \in DateTimeArgs, tzname \in Zones,
          label \in AnyLabels, reply_to \in AnyReplyTos, quote \in AnyQuotes :
          /\ dtstr.valid => ghost.adds < MaxInputAdds
          /\ cmd_add(text, dtstr, tzname, label, reply_to, quote)
    \/ cmd_list
    \/ \E post_id \in CancelArgs : cmd_cancel(post_id)
    \/ cmd_history
    \/ cmd_setup
    \/ \E impl \in Impls, env \in Envs : AllIdle /\ StartRun(1, impl, env)
    \/ EndPass(1)
    \/ Scan(1)
    \/ \E env \in Envs : Publish(1, env)
    \/ WriteDone(1)
    \/ UnlinkPending(1)

SpecInputs == Init /\ [][NextInputs]_vars

\* two runners: a pass may start while another is under way (nothing in the
\* program prevents it); the store's commands run between passes
NextOverlap ==
    \/ Tick
    \/ \E text \in Texts, dtstr \in DateTimeArgs, tzname \in Zones,
          label \in Labels, reply_to \in ReplyTos, quote \in Quotes :
          /\ dtstr.valid => ghost.adds < MaxOverlapAdds
          /\ cmd_add(text, dtstr, tzname, label, reply_to, quote)
    \/ cmd_list
    \/ \E post_id \in CancelArgs : cmd_cancel(post_id)
    \/ cmd_history
    \/ cmd_setup
    \/ \E r \in Runners, impl \in Impls, env \in Envs : StartRun(r, impl, env)
    \/ \E r \in Runners : EndPass(r)
    \/ \E r \in Runners : Scan(r)
    \/ \E r \in Runners, env \in Envs : Publish(r, env)
    \/ \E r \in Runners : WriteDone(r)
    \/ \E r \in Runners : UnlinkPending(r)

SpecOverlap == Init /\ [][NextOverlap]_vars

\* the program under a scheduler that keeps starting passes of cmd_post_due
\* with a working Publisher setup, each of which runs to its end, while the
\* clock keeps advancing up to the scheduled instant of every pending post
NextLive ==
    \/ Tick
    \/ Later
    \/ \E text \in Texts, dtstr \in DateTimeArgs, tzname \in Zones,
          label \in Labels, reply_to \in ReplyTos, quote \in Quotes :
          cmd_add(text, dtstr, tzname, label, reply_to, quote)
    \/ \E post_id \in CancelArgs : cmd_cancel(post_id)
    \/ \E impl \in Impls, env \in Envs : AllIdle /\ StartRun(1, impl, env)
    \/ EndPass(1)
    \/ Scan(1)
    \/ \E env \in Envs : Publish(1, env)
    \/ WriteDone(1)
    \/ UnlinkPending(1)

SpecLive ==
    /\ Init /\ [][NextLive]_vars
    /\ SF_vars(Later)
    /\ WF_vars(\E env \in Envs : AllIdle /\ StartRun(1, "cmd", env))
    /\ WF_vars(Scan(1))
    /\ WF_vars(\E env \in Envs : Publish(1, env))
    /\ WF_vars(WriteDone(1))
    /\ WF_vars(UnlinkPending(1))
    /\ WF_vars(EndPass(1))

\* the due test as a function of the scheduled_at string: the processor run on
\* stores whose files carry the forms fromisoformat accepts, namely no offset,
\* a positive offset and a negative one (cmd_add writes the offset of
\* --timezone; a file edited by hand may carry any of them)
ScheduledAtStrings == {<<7>>, <<7, "+", 9>>, <<16, "+", 9>>, <<7, "-", 5>>, <<2, "-", 5>>}

\* a pending record as it is read from a file whose scheduled_at is s
RecordWith(name, s, uid) ==
    [id |-> name, text |-> "Hello", scheduled_at |-> s,
     created_at |-> IsoFormat(NowIn(StartClock, 0)), status |-> "pending",
     label |-> "", reply_to |-> None, quote_tweet_id |-> None, uid |-> uid]

InitDue ==
    /\ dirs = {get_scheduled_dir, get_done_dir, PostDuePy}
    /\ \E s1 \in ScheduledAtStrings :
          \/ scheduled = WriteFile(<<>>, <<7, 0>>, RecordWith(<<7, 0>>, s1, 1))
          \/ \E s2 \in ScheduledAtStrings :
                scheduled = WriteFile(WriteFile(<<>>, <<7, 0>>, RecordWith(<<7, 0>>, s1, 1)),
                                      <<7, 1>>, RecordWith(<<7, 1>>, s2, 2))
    /\ done = <<>>
    /\ clock = StartClock
    /\ pc = [r \in Runners |-> "idle"]
    /\ run = [r \in Runners |-> IdleRun]
    /\ result = NoResult
    /\ published = <<>>
    /\ ghost = [adds |-> Cardinality(DOMAIN scheduled), inSuccession |-> FALSE,
                prevNow |-> 0, owed |-> {}, cancelled |-> {}]
    /\ junk = {}

NextDue ==
    \/ Tick
    \/ \E impl \in Impls, env \in Envs : AllIdle /\ StartRun(1, impl, env)
    \/ EndPass(1)
    \/ Scan(1)
    \/ \E env \in Envs : Publish(1, env)
    \/ WriteDone(1)
    \/ UnlinkPending(1)

SpecDue == InitDue /\ [][NextDue]_vars

\* the program run on directories that hold, besides the post files, files
\* that are not post records: the AppleDouble companion "._<name>.json" macOS
\* writes next to a file, and a copy "<name>.json.bak"
ArtifactFiles ==
    {[dir |-> d, prefix |-> k[1], stem |-> <<7, 0>>, ext |-> k[2]] :
        d \in {get_scheduled_dir, get_done_dir}, k \in {<<"._", ".json">>, <<"", ".json.bak">>}}

InitArtifacts ==
    /\ dirs = {get_scheduled_dir, get_done_dir}
    /\ scheduled = <<>>
    /\ done = <<>>
    /\ clock = StartClock
    /\ pc = [r \in Runners |-> "idle"]
    /\ run = [r \in Runners |-> IdleRun]
    /\ result = NoResult
    /\ published = <<>>
    /\ ghost = [adds |-> 0, inSuccession |-> FALSE, prevNow |-> 0, owed |-> {},
                cancelled |-> {}]
    /\ junk \in SUBSET ArtifactFiles \ {{}}

NextArtifacts ==
    \/ Tick
    \/ \E text \in Texts, dtstr \in DateTimeArgs, tzname \in Zones,
          label \in Labels, reply_to \in ReplyTos, quote \in Quotes :
          /\ dtstr.valid => ghost.adds < MaxArtifactAdds
          /\ cmd_add(text, dtstr, tzname, label, reply_to, quote)
    \/ cmd_list
    \/ \E post_id \in CancelArgs : cmd_cancel(post_id)
    \/ cmd_history
    \/ cmd_setup
    \/ \E impl \in Impls, env \in Envs : AllIdle /\ StartRun(1, impl, env)
    \/ EndPass(1)
    \/ Scan(1)
    \/ \E env \in Envs : Publish(1, env)
    \/ WriteDone(1)
    \/ UnlinkPending(1)

SpecArtifacts == InitArtifacts /\ [][NextArtifacts]_vars

(* ======================= the claims ======================= *)
\* the calls of post_to_x made by the pass that ended last
LastCalls == {i \in DOMAIN published : i > Len(published) - result.calls}

\* a pass has just ended normally and no command has run since
PassEnded == AllIdle /\ result.op = "post-due" /\ result.complete

\* the files of a directory that hold the record created by the add numbered uid
FilesOf(directory, uid) == {n \in DOMAIN directory : directory[n].uid = uid}

\* C1: with one runner, whatever adds, cancels and passes have run, post_to_x
\* has been called at most once for any one post record
C1_PublishAtMostOnce ==
    \A i, j \in DOMAIN published : published[i].uid = published[j].uid => i = j

\* C1 witness: a pass has ended that published a post, after an earlier pass
\* had published and archived another one
C1_Witness ==
    /\ PassEnded
    /\ result.calls >= 1
    /\ Len(published) > result.calls
    /\ \E n \in DOMAIN done : done[n].uid = published[1].uid

\* C2 as stated: a pass that follows a pass with no add in between calls
\* post_to_x for nothing and reports a count of zero
C2_SecondRunReportsZero ==
    (PassEnded /\ result.inSuccession) => (result.count = 0 /\ result.calls = 0)

\* C2 as amended: a pass that follows a pass with no add in between, when no
\* pending post has become due between the two passes' reference instants,
\* calls post_to_x for nothing and reports zero; and in any case it publishes
\* no post that an earlier pass published
C2_SecondRunZeroUnlessNewlyDue ==
    (PassEnded /\ result.inSuccession) =>
        /\ ~result.becameDue => (result.count = 0 /\ result.calls = 0)
        /\ \A i \in LastCalls : \A j \in DOMAIN published \ LastCalls :
              published[i].uid # published[j].uid

\* C2 witness: a first pass published a post and a second pass, with no add
\* and no newly due post in between, has just ended
C2_Witness ==
    /\ PassEnded
    /\ result.inSuccession
    /\ ~result.becameDue
    /\ Len(published) >= 1
    /\ DOMAIN scheduled # {}

\* a runner is between post_to_x and the unlink of the post created by add uid
Moving(uid) ==
    \E r \in Runners : pc[r] \in {"write", "unlink"} /\ run[r].data.uid = uid

\* C3: a post on which post_to_x was called stays pending only while the pass
\* that called is moving it, and when the pass ends every post it called
\* post_to_x for is in done/ with its outcome and is gone from the pending
\* directory, whether the call returned or raised
C3_MoveAfterEveryAttempt ==
    /\ \A i \in DOMAIN published :
          FilesOf(scheduled, published[i].uid) # {} => Moving(published[i].uid)
    /\ PassEnded =>
          \A i \in LastCalls :
             /\ FilesOf(scheduled, published[i].uid) = {}
             /\ \E n \in FilesOf(done, published[i].uid) :
                   done[n].status = IF published[i].ok THEN "posted" ELSE "failed"

\* C3 witness: a pass has ended in which one call returned and one raised
C3_Witness ==
    /\ PassEnded
    /\ \E i, j \in LastCalls : published[i].ok /\ ~published[j].ok

\* C4: when a pass ends, every post whose post_to_x call raised is in done/
\* with status failed, posted_at set and a non-empty error, and is not
\* pending; and no post whose call raised is ever called for again
C4_FailedIsArchivedOnce ==
    /\ PassEnded =>
          \A i \in LastCalls : ~published[i].ok =>
             /\ FilesOf(scheduled, published[i].uid) = {}
             /\ \E n \in FilesOf(done, published[i].uid) :
                   /\ done[n].status = "failed"
                   /\ "posted_at" \in DOMAIN done[n]
                   /\ "error" \in DOMAIN done[n]
                   /\ done[n].error # ""
    /\ \A i, j \in DOMAIN published :
          (~published[i].ok /\ published[i].uid = published[j].uid) => i = j

\* C4 witness: a pass has ended without a call, after an earlier pass archived
\* as failed a post whose call raised
C4_Witness ==
    /\ PassEnded
    /\ result.inSuccession
    /\ result.calls = 0
    /\ \E i \in DOMAIN published :
          /\ ~published[i].ok
          /\ \E n \in FilesOf(done, published[i].uid) : done[n].status = "failed"

\* C5: when a pass is over, every file that was pending and due when the pass
\* started is gone from the pending directory, whatever the calls of
\* post_to_x did
C5_DuePostsLeavePending ==
    (AllIdle /\ result.op = "post-due") => \A n \in result.due : n \notin DOMAIN scheduled

\* C5 witness: a pass has ended that found two due posts, and both calls raised
C5_Witness ==
    /\ PassEnded
    /\ Cardinality(result.due) = 2
    /\ result.calls = 2
    /\ \A i \in LastCalls : ~published[i].ok

\* the adds that have written a record
Uids == 1..ghost.adds

\* C6: in every state, at every point of a pass too, no record is in both
\* directories, every file of the pending directory has status pending and
\* every file of done/ has status posted or failed
C6_ExactlyOneLocation ==
    /\ \A uid \in Uids : FilesOf(scheduled, uid) = {} \/ FilesOf(done, uid) = {}
    /\ \A n \in DOMAIN scheduled : scheduled[n].status = "pending"
    /\ \A n \in DOMAIN done : done[n].status \in {"posted", "failed"}

\* the status of the record created by add uid: that of its file in done/ when
\* there is one, else that of its pending file
StatusOf(sched, arch, uid) ==
    IF \E n \in DOMAIN arch : arch[n].uid = uid
    THEN arch[CHOOSE n \in DOMAIN arch : arch[n].uid = uid].status
    ELSE IF \E n \in DOMAIN sched : sched[n].uid = uid
    THEN sched[CHOOSE n \in DOMAIN sched : sched[n].uid = uid].status
    ELSE "absent"

\* C7: a record appears with status pending, its only change of status is from
\* pending to posted or failed, and once posted or failed it keeps that status
\* for as long as it exists; a record in done/ is posted or failed
C7_StatusChangesOnce ==
    /\ [](\A n \in DOMAIN done : done[n].status \in {"posted", "failed"})
    /\ [][\A uid \in 1..MaxAdds :
            LET old == StatusOf(scheduled, done, uid)
                new == StatusOf(scheduled', done', uid)
            IN  /\ old = "absent" => new \in {"absent", "pending"}
                /\ old = "pending" => new \in {"pending", "posted", "failed", "absent"}
                /\ old \in {"posted", "failed"} => new \in {old, "absent"}]_vars

\* C7 witness: one pass has left one record posted and another failed
C7_Witness ==
    /\ \E n \in DOMAIN done : done[n].status = "posted"
    /\ \E n \in DOMAIN done : done[n].status = "failed"
    /\ PassEnded /\ result.calls = 2

\* C8: an add that succeeds returns an id that no file of the pending directory
\* or of done/ had before it
C8_AddIdIsNew ==
    (result.op = "add" /\ result.exit = 0) => ~result.existed

\* C9: list returns pending records only, in non-decreasing order of the
\* instants their scheduled_at denote
C9_ListSortedByInstant ==
    result.op = "list" =>
        /\ \A i \in DOMAIN result.out : result.out[i].status = "pending"
        /\ \A i, j \in DOMAIN result.out :
              i < j => Instant(FromIsoFormat(result.out[i].scheduled_at))
                          <= Instant(FromIsoFormat(result.out[j].scheduled_at))

\* C10: a cancel whose argument names no pending record exits non-zero and
\* changes neither directory
C10_CancelNotFound ==
    (result.op = "cancel" /\ ~result.wasPending) => (result.exit = 1 /\ ~result.changed)

\* C11: whatever id the user passes, a directory prefix included, cancel leaves
\* the files of done/ and their contents as they were, and a cancel that
\* succeeds has removed the pending record the id names and nothing else
C11_CancelLeavesArchive ==
    result.op = "cancel" =>
        /\ ~result.archiveChanged
        /\ result.exit = 0 => result.removedNamed

\* the instant the scheduled_at of a record denotes is later than now
NotYet(data, now) == Instant(FromIsoFormat(data.scheduled_at)) > now

\* C12: no step of a pass touches a pending post whose scheduled_at is later
\* than the pass's now: post_to_x is not called for it, it is not the post the
\* pass is moving or counting, and its file stays in the pending directory with
\* the same content
C12_NotDueUntouched ==
    [][\A r \in Runners : pc[r] # "idle" =>
          \A n \in DOMAIN scheduled : NotYet(scheduled[n], run[r].now) =>
             /\ n \in DOMAIN scheduled' /\ scheduled'[n] = scheduled[n]
             /\ pc'[r] \in {"publish", "write", "unlink"} => run'[r].f # n
             /\ published' # published =>
                    published'[Len(published')].uid # scheduled[n].uid
             /\ done' # done => \A m \in DOMAIN done' :
                    done'[m].uid = scheduled[n].uid => (m \in DOMAIN done /\ done[m] = done'[m])]_vars

\* the record archived for the call numbered i of post_to_x, if it is there
ArchivedFor(i) == {n \in DOMAIN done : done[n].uid = published[i].uid}

\* the keyword arguments carry exactly the text, the reply target when isSet
\* holds of reply_to, and the quoted tweet when isSet holds of quote_tweet_id
KwargsMatch(kwargs, data, replySet, quoteSet) ==
    /\ kwargs.text = data.text
    /\ ("in_reply_to_tweet_id" \in DOMAIN kwargs) = replySet
    /\ replySet => kwargs.in_reply_to_tweet_id = data.reply_to
    /\ ("quote_tweet_id" \in DOMAIN kwargs) = quoteSet
    /\ quoteSet => kwargs.quote_tweet_id = data.quote_tweet_id
    /\ DOMAIN kwargs \subseteq {"text", "in_reply_to_tweet_id", "quote_tweet_id"}

\* C13 as stated: when a pass has ended no pending post with scheduled_at <= now
\* is left, every archived post had post_to_x called for it, and each call that
\* reached create_tweet passed the text, reply_to exactly when the record's
\* reply_to is not null and quote_tweet_id exactly when the record's is not null
C13_PublishEveryDuePost ==
    PassEnded =>
        /\ \A n \in DOMAIN scheduled :
              scheduled[n].status = "pending" => NotYet(scheduled[n], result.now)
        /\ \A n \in DOMAIN done : \E i \in DOMAIN published : published[i].uid = done[n].uid
        /\ \A i \in DOMAIN published : published[i].ok =>
              \A n \in ArchivedFor(i) :
                 KwargsMatch(published[i].kwargs, done[n],
                             done[n].reply_to # None, done[n].quote_tweet_id # None)

\* C13 as amended: the same, with reply_to and quote_tweet_id passed exactly
\* when the record holds a non-empty value for them
C13_PublishEveryDuePostNonEmpty ==
    PassEnded =>
        /\ \A n \in DOMAIN scheduled :
              scheduled[n].status = "pending" => NotYet(scheduled[n], result.now)
        /\ \A n \in DOMAIN done : \E i \in DOMAIN published : published[i].uid = done[n].uid
        /\ \A i \in DOMAIN published : published[i].ok =>
              \A n \in ArchivedFor(i) :
                 KwargsMatch(published[i].kwargs, done[n],
                             done[n].reply_to \notin {None, ""},
                             done[n].quote_tweet_id \notin {None, ""})

\* C13 witness: a pass whose now is the very instant of a post's scheduled_at
\* has published it with a reply target and no quoted tweet
C13_Witness ==
    /\ PassEnded
    /\ result.calls = 1
    /\ published[Len(published)].ok
    /\ \E n \in ArchivedFor(Len(published)) :
          /\ Instant(FromIsoFormat(done[n].scheduled_at)) = result.now
          /\ done[n].reply_to = "1001"
          /\ done[n].quote_tweet_id = None

\* the fields cmd_add writes
AddFields == {"id", "text", "scheduled_at", "created_at", "label", "reply_to", "quote_tweet_id"}

\* C14: the record a pass is about to archive after post_to_x returned has
\* status posted, posted_at equal to the now the pass took for the due test,
\* tweet_id and tweet_url equal to the id and URL the call returned, and the
\* fields add wrote as they are in the pending file
C14_PostedRecord ==
    \A r \in Runners : (pc[r] = "write" /\ published[Len(published)].ok) =>
        LET data == run[r].data
        IN  /\ data.status = "posted"
            /\ data.posted_at = IsoFormat(NowIn(run[r].now, 0))
            /\ data.tweet_id = Len(published)
            /\ data.tweet_url = <<"https://x.com/i/status/", Len(published)>>
            /\ \A k \in AddFields : data[k] = scheduled[run[r].f][k]

\* C15: the count a pass reports when it ends is the number of records it has
\* moved: each post it called post_to_x for has left the pending directory and
\* is in done/ as posted or failed, and these are the files that were pending
\* and due when the pass started
C15_CountIsMoved ==
    PassEnded =>
        /\ result.count = Cardinality({published[i].uid : i \in LastCalls})
        /\ result.count = Cardinality(result.due)
        /\ \A i \in LastCalls :
              /\ FilesOf(scheduled, published[i].uid) = {}
              /\ \E n \in FilesOf(done, published[i].uid) :
                    n \in result.due /\ done[n].status \in {"posted", "failed"}

\* C15 witness: a pass has ended that moved one post, as failed, to a done/
\* that held a record archived by an earlier pass, and reported 1
C15_Witness ==
    /\ PassEnded
    /\ result.count = 1
    /\ Cardinality(DOMAIN done) = 2
    /\ ~published[Len(published)].ok

\* C16: an add whose scheduled_at is not later than now succeeds with the
\* warning and leaves its record pending, and the next pass that runs to its
\* end archives every such post that was not cancelled
C16_PastAddProcessedNext ==
    /\ (result.op = "add" /\ result.exit = 0 /\ result.warning) =>
          /\ result.out.id \in DOMAIN scheduled
          /\ scheduled[result.out.id].status = "pending"
          /\ scheduled[result.out.id].uid = result.out.uid
    /\ PassEnded =>
          \A uid \in result.owed : FilesOf(scheduled, uid) = {} /\ FilesOf(done, uid) # {}

\* C17: an add whose --datetime is in neither accepted format exits non-zero,
\* and the step that reports it leaves the files of the pending directory and
\* of done/ and their contents as they were
C17_BadDateAborts ==
    /\ [](result.op = "add" /\ ~result.valid => result.exit # 0)
    /\ [][(result'.op = "add" /\ ~result'.valid) =>
             (scheduled' = scheduled /\ done' = done)]_vars

\* C17 witness: an add has been refused for its date with a pending and an
\* archived record in the store
C17_Witness ==
    /\ result.op = "add" /\ ~result.valid /\ result.exit = 1
    /\ DOMAIN scheduled # {}
    /\ DOMAIN done # {}

\* C18: no add writes a record with an empty text, so no record of the pending
\* directory or of done/ ever has one
C18_TextNonEmpty ==
    /\ (result.op = "add" /\ result.exit = 0) => result.out.text # ""
    /\ \A n \in DOMAIN scheduled : scheduled[n].text # ""
    /\ \A n \in DOMAIN done : done[n].text # ""

\* C19: no step of add, cancel, list, history or a pass removes a file of done/
\* or changes its content, and history returns every record of done/
C19_ArchivePermanent ==
    /\ [](result.op = "history" =>
             \A n \in DOMAIN done : \E i \in DOMAIN result.out : result.out[i] = done[n])
    /\ [][\A n \in DOMAIN done : n \in DOMAIN done' /\ done'[n] = done[n]]_vars

KeyInstant(x) ==
    IF "posted_at" \in DOMAIN x THEN Instant(FromIsoFormat(x.posted_at))
    ELSE Instant(FromIsoFormat(x.scheduled_at))

\* C21: history returns the records of done/, each once and no other, in
\* non-increasing order of the instant of posted_at (of scheduled_at for a
\* record without posted_at)
C21_HistoryNewestFirst ==
    result.op = "history" =>
        /\ Len(result.out) = Cardinality(DOMAIN done)
        /\ \A n \in DOMAIN done : \E i \in DOMAIN result.out : result.out[i] = done[n]
        /\ \A i, j \in DOMAIN result.out :
              i < j => KeyInstant(result.out[i]) >= KeyInstant(result.out[j])

\* C21 witness: history has returned two records of which the one whose file
\* name sorts first was posted earlier, so that it comes last
C21_Witness ==
    /\ result.op = "history"
    /\ Len(result.out) = 2
    /\ KeyInstant(result.out[1]) > KeyInstant(result.out[2])
    /\ NameLess(result.out[2].id, result.out[1].id)

\* C22: post_to_x is called a second time for a post only by a pass that has
\* overlapped another pass; passes that run one after the other never call it
\* twice for one post
C22_TwiceOnlyWhenOverlapping ==
    \A i, j \in DOMAIN published :
        (i < j /\ published[i].uid = published[j].uid) => published[j].overlapped

\* C22 witness: two overlapping passes have both called post_to_x for one
\* post, and the one that came last to the file has died on the missing file
C22_Witness ==
    /\ \E i, j \in DOMAIN published : i < j /\ published[i].uid = published[j].uid
    /\ result.op = "post-due"
    /\ result.raised = "FileNotFoundError"

\* the instant, in UTC, that a scheduled_at string denotes: the reading less
\* the offset it carries, or the reading itself when it carries none
UtcInstant(s) ==
    IF Len(s) = 1 THEN s[1] ELSE IF s[2] = "-" THEN s[1] + s[3] ELSE s[1] - s[3]

\* C23: a pass processes a pending record only if the instant of its scheduled_at,
\* read as UTC when it carries no offset, is at or before the pass's now, and
\* when the pass has ended every pending record left has a later instant
C23_DueByUtcInstant ==
    /\ \A r \in Runners : pc[r] \in {"publish", "write", "unlink"} =>
          UtcInstant(run[r].data.scheduled_at) <= run[r].now
    /\ PassEnded =>
          \A n \in DOMAIN scheduled : UtcInstant(scheduled[n].scheduled_at) > result.now

\* C23 witness: a pass has ended that processed a record without offset whose
\* reading is the pass's now, and left one with a negative offset whose
\* wall-clock reading is not later than now
C23_Witness ==
    /\ PassEnded
    /\ \E n \in DOMAIN done :
          Len(done[n].scheduled_at) = 1 /\ done[n].scheduled_at[1] = result.now
    /\ \E n \in DOMAIN scheduled :
          /\ Len(scheduled[n].scheduled_at) = 3
          /\ scheduled[n].scheduled_at[2] = "-"
          /\ scheduled[n].scheduled_at[1] <= result.now

\* the record an implementation archives for data when create_tweet returns
\* the tweet numbered n, in a pass whose now is now, the clock reading t
ArchivedBy(impl, data, now, t, n) ==
    OnSuccess(data, post_to_x(data, impl, "ok", n), PostedAtInstant(impl, now, t))

\* C24: wherever a pass stands before a call of post_to_x, cmd_post_due and
\* post_due.py archive the same record, posted_at included, for the same
\* answer of the Publisher (the steps before and after the call, namely the
\* listing, the due test, the move and the count, are the same code in both)
C24_ImplementationsAgree ==
    \A r \in Runners : pc[r] = "publish" =>
        ArchivedBy("cmd", run[r].data, run[r].now, clock, Len(published) + 1)
            = ArchivedBy("script", run[r].data, run[r].now, clock, Len(published) + 1)

\* C25: a post whose pending record a cancel has removed has never had
\* post_to_x called for it and has no record in done/, in that state and in
\* every later one
C25_CancelledNeverPublished ==
    \A c \in ghost.cancelled :
        /\ \A i \in DOMAIN published : published[i].uid # c.uid
        /\ FilesOf(done, c.uid) = {}
        /\ FilesOf(scheduled, c.uid) = {}

\* C25 witness: a post that was due when it was cancelled, and a pass since
\* then that has published another post and ended
C25_Witness ==
    /\ \E c \in ghost.cancelled : c.wasDue
    /\ PassEnded
    /\ result.calls = 1

\* C26: under a clock that keeps advancing and passes that keep being started
\* and run to their end, every post that an add has left pending is in the end
\* archived in done/, unless a cancel removes it
C26_EventuallyArchived ==
    \A uid \in 1..MaxAdds :
        (FilesOf(scheduled, uid) # {}) ~>
            (FilesOf(done, uid) # {} \/ \E c \in ghost.cancelled : c.uid = uid)

\* the records of the post files of a directory
RecordsOf(directory) == {directory[n] : n \in DOMAIN directory}

\* C27: list, history and the processor skip the files of the store's
\* directories that are not post records (names that start with "._" or do not
\* end in .json): list and history succeed and report exactly the records of
\* the post files, a pass never dies, and the file a pass publishes and moves
\* is a post file
C27_ArtifactsSkipped ==
    /\ result.op = "list" =>
          /\ result.exit = 0
          /\ {result.out[i] : i \in DOMAIN result.out} = RecordsOf(scheduled)
    /\ result.op = "history" =>
          /\ result.exit = 0
          /\ {result.out[i] : i \in DOMAIN result.out} = RecordsOf(done)
    /\ result.op = "post-due" => result.raised = None
    /\ \A r \in Runners :
          pc[r] \in {"publish", "write", "unlink"} =>
              /\ run[r].f \in DOMAIN scheduled
              /\ run[r].data.uid \in 1..ghost.adds

\* C27 witness: a pass has published and moved a post whose file had an
\* AppleDouble companion beside it in scheduled-posts, which is still there
C27_Witness ==
    /\ PassEnded
    /\ result.count = 1
    /\ \E e \in junk : e.dir = get_scheduled_dir /\ e.prefix = "._" /\ e.stem \in DOMAIN done

\* C12 witness: a pass that processed a due post has ended and a pending post
\* with scheduled_at later than the pass's now is still there
C12_Witness ==
    /\ PassEnded
    /\ result.count = 1
    /\ \E n \in DOMAIN scheduled : NotYet(scheduled[n], result.now)
====
